---- MODULE Spec2Model ----
(***************************************************************************)
(* Model of the approximate-LFU cache of src/src/ctools_lfu.c.             *)
(*                                                                         *)
(* The cache is a Python dict (insertion ordered) from key to LFUWrapper;  *)
(* it is modelled as a sequence of entries in dict order.  Every handler   *)
(* of the mapping object is one action.  The minute clock is an input of   *)
(* the environment: it never goes back, and it may advance between two     *)
(* reads made by one handler.                                              *)
(***************************************************************************)
EXTENDS Integers, Sequences, FiniteSets, TLC

\* ---- program constants -------------------------------------------------
LFU_INIT_VAL == 255
LFU_BUCKET == 8
LFU_BUCKET_SIZE == 256

\* ---- bounds of the model -----------------------------------------------
MaxVisits == 1        \* visits recorded on one entry above LFU_INIT_VAL
MaxStat == 1          \* indexed reads counted by hits + misses
MaxPairs == 1         \* pairs in the dict and in the keywords of one update

Keys == {"a", "b", "c"}
Capacities == {1, 2}
None == "None"
Objects == {None, "v1"}
NoArg == "NoArg"
Raises == "Raises"

\* instants at which the clock is read: construction, and full decay of an
\* entry stamped at construction
Times == {0, LFU_INIT_VAL}
Later(t) == {u \in Times : u >= t}

VARIABLES dict, capacity, hits, misses, now, result
vars == <<dict, capacity, hits, misses, now, result>>

\* ---- the dict ------------------------------------------------------------
PyLFUCache_Size(d) == Len(d)

KeysOf(d) == {d[i].key : i \in 1..Len(d)}

\* position of key in the dict, 0 when absent (a NULL borrowed reference)
PyLFUCache_GetItem(d, key) ==
  IF \E i \in 1..Len(d) : d[i].key = key
  THEN CHOOSE i \in 1..Len(d) : d[i].key = key
  ELSE 0

PyDict_DelItem(d, i) == SubSeq(d, 1, i - 1) \o SubSeq(d, i + 1, Len(d))

LFUCache_Contains(d, key) == PyLFUCache_GetItem(d, key) # 0

\* ---- unsigned int ----------------------------------------------------------
\* An unsigned int (32 bits) is held as the 32-bit integer with the same
\* bits: 0 .. 2^31 - 1 are themselves, 2^31 .. 2^32 - 1 appear as
\* -2^31 .. -1, so that UINT_MAX is -1.
INT_MAX == 2147483647
INT_MIN == -2147483647 - 1
UINT_MAX == -1

\* x + 1 modulo 2^32
U32_inc(x) == IF x = INT_MAX THEN INT_MIN ELSE x + 1

\* a > b as unsigned ints
U32_gt(a, b) == IF (a >= 0) = (b >= 0) THEN a > b ELSE a < 0

\* a - b modulo 2^32; d is a - b shifted by 2^31 into the 32-bit range
U32_sub(a, b) ==
  IF (a >= 0) = (b >= 0) THEN a - b
  ELSE LET d == IF a >= 0 THEN ((a - INT_MAX) - 1) - b ELSE ((a + INT_MAX) + 1) - b
       IN IF d < 0 THEN (d + INT_MAX) + 1 ELSE (d - INT_MAX) - 1

\* ---- LFUWrapper ----------------------------------------------------------
LFUWrapper_init_cold(key, value, t) ==
  [key |-> key, wrapped |-> value, last_visit |-> t, visit_count |-> 0]

LFUWrapper_init(key, value, t) ==
  [key |-> key, wrapped |-> value, last_visit |-> t, visit_count |-> LFU_INIT_VAL]

LFUWrapper_UPDATE_WEIGHT_nostamp(w, t) ==
  [w EXCEPT !.visit_count = U32_inc(w.visit_count)]

\* visit_count++ on an unsigned int, then the stamp
LFUWrapper_UPDATE_WEIGHT(w, t) ==
  [w EXCEPT !.visit_count = U32_inc(w.visit_count), !.last_visit = t]

LFUWrapper_WEIGHT_nofloor(w, t) ==
  U32_sub(w.visit_count, U32_sub(t, w.last_visit))

LFUWrapper_WEIGHT(w, t) ==
  LET counter == w.visit_count
      num == U32_sub(t, w.last_visit)
  IN IF U32_gt(num, counter) THEN 0 ELSE U32_sub(counter, num)

\* ---- victim selection ----------------------------------------------------
\* rand_limit(limit): every value the loop can return
rand_limit(limit) == 0..limit

\* the exact scan of the dict; min = 0 doubles as "no minimum yet"
RECURSIVE LFU_scan(_, _, _, _, _)
LFU_scan(d, pos, min, rv, t) ==
  IF pos > Len(d) THEN rv
  ELSE LET weight == LFUWrapper_WEIGHT(d[pos], t)
       IN IF min = 0 \/ weight < min
          THEN LFU_scan(d, pos + 1, weight, pos, t)
          ELSE LFU_scan(d, pos + 1, min, rv, t)

\* the sampled buckets i..LFU_BUCKET-2; rnd[i+1] is the draw of bucket i;
\* positions are 0-based as in the key list, rv is a 1-based dict position
\* one turn of the loop over the buckets: bucket i sampled with draw r
LFU_bucket(d, i, min, rv, t, r) ==
  LET b_size == Len(d) \div LFU_BUCKET
      pos == i * b_size + r
      weight == LFUWrapper_WEIGHT(d[pos + 1], t)
  IN IF min = 0 \/ weight < min
     THEN [min |-> weight, rv |-> pos + 1, pos |-> pos, key |-> pos + 1]
     ELSE [min |-> min, rv |-> rv, pos |-> pos, key |-> pos + 1]

RECURSIVE LFU_buckets(_, _, _, _, _, _)
LFU_buckets(d, i, min, rv, t, rnd) ==
  IF i >= LFU_BUCKET - 1 THEN [min |-> min, rv |-> rv]
  ELSE LET s == LFU_bucket(d, i, min, rv, t, rnd[i + 1])
       IN LFU_buckets(d, i + 1, s.min, s.rv, t, rnd)

\* the key of the last bucket sampled, which the remainder branch reuses
LFU_lastkey(d, rnd) ==
  (LFU_BUCKET - 2) * (Len(d) \div LFU_BUCKET) + rnd[LFU_BUCKET - 1] + 1

\* index, in the key list, of the key that stands for the remainder
LFU_remainder_pos(d) ==
  LET dict_len == Len(d)
      b_size == dict_len \div LFU_BUCKET
  IN LFU_BUCKET * b_size + (dict_len - LFU_BUCKET * b_size) \div 2

\* the remainder branch: rv is set to key, the key the loop fetched last
LFU_remainder(d, min, rv, key, t) ==
  LET weight == LFUWrapper_WEIGHT(d[LFU_remainder_pos(d) + 1], t)
  IN IF Len(d) % LFU_BUCKET # 0 /\ (min = 0 \/ weight < min) THEN key ELSE rv

LFU_sample(d, t, rnd) ==
  LET s == LFU_buckets(d, 0, 0, 0, t, rnd)
  IN LFU_remainder(d, s.min, s.rv, LFU_lastkey(d, rnd), t)

\* the draws one call of lfu makes
RandDraws(d) ==
  IF Len(d) < LFU_BUCKET_SIZE THEN {<<>>}
  ELSE [1..(LFU_BUCKET - 1) -> rand_limit(Len(d) \div LFU_BUCKET)]

\* position of the victim, 0 when the dict is empty (KeyError)
LFUCache_lfu(d, t, rnd) ==
  IF Len(d) = 0 THEN 0
  ELSE IF Len(d) < LFU_BUCKET_SIZE THEN LFU_scan(d, 1, 0, 0, t)
  ELSE LFU_sample(d, t, rnd)

LFUCache_evict(d, t, rnd) ==
  LET k == LFUCache_lfu(d, t, rnd)
  IN IF k = 0 THEN d ELSE PyDict_DelItem(d, k)

\* every dict one eviction at clock reading t can leave
EvictOnce(d, t) == {LFUCache_evict(d, t, rnd) : rnd \in RandDraws(d)}

\* ---- PyLFUCache_SetItem ---------------------------------------------------
\* the readings the next read of the clock can give: the clock stood at t,
\* and has not moved since the call began if this is its first read
Reads(t, first) == IF first THEN {t} ELSE Later(t)

Run(d, t, first) == [dict |-> d, now |-> t, first |-> first]
\* what a set of runs leaves: the dict and the last reading of the clock
Outcomes(S) == {[dict |-> r.dict, now |-> r.now] : r \in S}

SetItem_room_noevict(d, cap, t) == {d}

\* the dicts left once room is made for one more key (clock read t by lfu)
SetItem_room(d, cap, t) ==
  IF PyLFUCache_Size(d) + 1 > cap THEN EvictOnce(d, t) ELSE {d}

\* the clock readings LFUWrapper_init can make when lfu, if it ran, read t
SetItem_stamps(d, cap, t) ==
  IF PyLFUCache_Size(d) + 1 > cap THEN Later(t) ELSE {t}

SetItem_replace_visit(d, i, value) ==
  [d EXCEPT ![i].wrapped = value, ![i].visit_count = d[i].visit_count + 1]

SetItem_replace(d, i, value) == [d EXCEPT ![i].wrapped = value]

\* every run the call can make from a clock standing at t
PyLFUCache_SetItem(d, cap, key, value, t, first) ==
  LET i == PyLFUCache_GetItem(d, key)
  IN IF i # 0
     THEN {Run(SetItem_replace(d, i, value), t, first)}
     ELSE UNION {{Run(Append(e, LFUWrapper_init(key, value, u)), u, FALSE) :
                    e \in SetItem_room(d, cap, r), u \in SetItem_stamps(d, cap, r)} :
                 r \in Reads(t, first)}

\* ---- PyLFUCache_DelItem ---------------------------------------------------
DelItem_error == "TypeError"

PyLFUCache_DelItem(d, key) ==
  LET i == PyLFUCache_GetItem(d, key)
  IN IF i = 0 THEN [dict |-> d, kind |-> DelItem_error]
     ELSE [dict |-> PyDict_DelItem(d, i), kind |-> "ok"]

\* ---- runs that read the clock several times -------------------------------
\* LFUWrapper_wrapped on entries i..Len(d), one clock reading per entry
RECURSIVE VisitRuns(_, _, _)
VisitRuns(d, i, t) ==
  IF i > Len(d) THEN {Run(d, t, FALSE)}
  ELSE UNION {VisitRuns([d EXCEPT ![i] = LFUWrapper_UPDATE_WEIGHT(d[i], u)], i + 1, u) :
                u \in Reads(t, i = 1)}

\* r calls of evict, one clock reading per call
RECURSIVE EvictRuns(_, _, _, _)
EvictRuns(d, r, t, first) ==
  IF r = 0 THEN {Run(d, t, first)}
  ELSE UNION {UNION {EvictRuns(e, r - 1, u, FALSE) : e \in EvictOnce(d, u)} :
                u \in Reads(t, first)}

\* PyLFUCache_SetItem on pairs[i..], continuing every run in S
RECURSIVE UpdateRuns(_, _, _, _)
UpdateRuns(S, cap, pairs, i) ==
  IF i > Len(pairs) THEN S
  ELSE UpdateRuns(UNION {PyLFUCache_SetItem(r.dict, cap, pairs[i][1], pairs[i][2],
                                            r.now, r.first) : r \in S},
                  cap, pairs, i + 1)

\* ---- inputs ---------------------------------------------------------------
Defaults == {NoArg, "v1"}
Produced == Objects \cup {Raises}
InitCapacities == {0} \cup Capacities
SetCapacities == {0} \cup Capacities
VisitCap == LFU_INIT_VAL + MaxVisits

UpdateKeys == {"a", "b"}
UpdateValues == {"v1"}
DistinctKeys(s) == \A i, j \in 1..Len(s) : s[i][1] = s[j][1] => i = j
PairSeqs ==
  UNION {{s \in [1..n -> UpdateKeys \X UpdateValues] : DistinctKeys(s)} : n \in 0..MaxPairs}
UpdateInputs == PairSeqs \X PairSeqs

\* ---- state ----------------------------------------------------------------
\* result is what the last call did: the handler, its key (not recorded for
\* the pure reads contains and get), the value or capacity passed to a
\* writer, the outcome and the value returned
\* removed counts the keys the call took out of the dict
Removed(d, e) == Cardinality(KeysOf(d) \ KeysOf(e))
RetA(op, key, arg, kind, val, removed) ==
  [op |-> op, key |-> key, arg |-> arg, kind |-> kind, val |-> val, removed |-> removed]
Ret(op, key, kind, val) == RetA(op, key, "-", kind, val, 0)

\* the object was constructed and the process has not crashed
Alive == result.kind # "Abort" /\ ~(result.op = "init" /\ result.kind # "ok")

\* LFUCache_new + LFUCache_init
Init ==
  /\ dict = <<>>
  /\ hits = 0
  /\ misses = 0
  /\ now = 0
  /\ capacity \in InitCapacities
  /\ result = Ret("init", "-", IF capacity <= 0 THEN "ValueError" ELSE "ok", "-")

\* the minute clock advances between two calls
Tick ==
  /\ Alive
  /\ now' \in Later(now) \ {now}
  /\ result' = Ret("tick", "-", "ok", "-")
  /\ UNCHANGED <<dict, capacity, hits, misses>>

\* cache[key] = value
SetItem(key, value) ==
  /\ Alive
  /\ \E r \in Outcomes(PyLFUCache_SetItem(dict, capacity, key, value, now, TRUE)) :
       /\ dict' = r.dict
       /\ now' = r.now
  /\ result' = RetA("set", key, value, "ok", "-", Removed(dict, dict'))
  /\ UNCHANGED <<capacity, hits, misses>>

\* del cache[key]
DelItem(key) ==
  /\ Alive
  /\ LET r == PyLFUCache_DelItem(dict, key)
     IN /\ dict' = r.dict
        /\ result' = RetA("del", key, "-", r.kind, "-", Removed(dict, dict'))
  /\ UNCHANGED <<capacity, hits, misses, now>>

\* cache[key]
Subscript_miss(m) == m + 1

Subscript_hit_none(h) == h

Subscript_hit(h) == h + 1

LFUCache_mp_subscript(key) ==
  /\ Alive
  /\ LET i == PyLFUCache_GetItem(dict, key)
     IN IF i = 0
        THEN /\ hits + misses < MaxStat
             /\ misses' = Subscript_miss(misses)
             /\ result' = Ret("getitem", key, "KeyError", "-")
             /\ UNCHANGED <<dict, hits>>
        ELSE /\ hits + misses < MaxStat
             /\ dict[i].visit_count < VisitCap
             /\ hits' = Subscript_hit(hits)
             /\ dict' = [dict EXCEPT ![i] = LFUWrapper_UPDATE_WEIGHT(dict[i], now)]
             /\ result' = Ret("getitem", key, "ok", dict[i].wrapped)
             /\ UNCHANGED misses
  /\ UNCHANGED <<capacity, now>>

\* hints(): (capacity, hits, misses)
LFUCache_hints ==
  /\ Alive
  /\ result' = Ret("hints", "-", "ok", <<capacity, hits, misses>>)
  /\ UNCHANGED <<dict, capacity, hits, misses, now>>

\* keys()
LFUCache_keys ==
  /\ Alive
  /\ result' = Ret("keys", "-", "ok", "-")
  /\ UNCHANGED <<dict, capacity, hits, misses, now>>

\* iter(cache): an iterator over keys()
LFUCache_tp_iter ==
  /\ Alive
  /\ result' = Ret("iter", "-", "ok", "-")
  /\ UNCHANGED <<dict, capacity, hits, misses, now>>

\* key in cache
Contains(key) ==
  /\ Alive
  /\ result' = Ret("contains", "-", "ok", IF LFUCache_Contains(dict, key) THEN "True" ELSE "False")
  /\ UNCHANGED <<dict, capacity, hits, misses, now>>

LFUCache_values_novisit ==
  /\ Alive
  /\ result' = Ret("values", "-", "ok", "-")
  /\ UNCHANGED <<dict, capacity, hits, misses, now>>

\* values(): unwraps every wrapper in place in the list of values
LFUCache_values ==
  /\ Alive
  /\ \A i \in 1..Len(dict) : dict[i].visit_count < VisitCap
  /\ \E r \in Outcomes(VisitRuns(dict, 1, now)) :
       /\ dict' = r.dict
       /\ now' = r.now
  /\ result' = Ret("values", "-", "ok", "-")
  /\ UNCHANGED <<capacity, hits, misses>>

\* items()
LFUCache_items ==
  /\ Alive
  /\ \A i \in 1..Len(dict) : dict[i].visit_count < VisitCap
  /\ \E r \in Outcomes(VisitRuns(dict, 1, now)) :
       /\ dict' = r.dict
       /\ now' = r.now
  /\ result' = Ret("items", "-", "ok", "-")
  /\ UNCHANGED <<capacity, hits, misses>>

\* what get and pop return on a miss
Miss_value(default) == IF default = NoArg THEN None ELSE default

LFUCache_get_counting(key) ==
  /\ Alive
  /\ LET i == PyLFUCache_GetItem(dict, key)
     IN IF i = 0
        THEN /\ \E default \in Defaults : result' = Ret("get", "-", "ok", Miss_value(default))
             /\ misses' = misses + 1
             /\ UNCHANGED hits
        ELSE /\ result' = Ret("get", "-", "ok", dict[i].wrapped)
             /\ hits' = hits + 1
             /\ UNCHANGED misses
  /\ UNCHANGED <<dict, capacity, now>>

\* get(key[, default])
LFUCache_get(key) ==
  /\ Alive
  /\ LET i == PyLFUCache_GetItem(dict, key)
     IN IF i = 0
        THEN \E default \in Defaults : result' = Ret("get", "-", "ok", Miss_value(default))
        ELSE result' = Ret("get", "-", "ok", dict[i].wrapped)
  /\ UNCHANGED <<dict, capacity, hits, misses, now>>

\* what the caller of pop sees on a hit: PyLFUCache_DelItem returns 0 on
\* success, the test !0 takes the error return, NULL with no exception set
\* (SystemError in the interpreter); result->wrapped is read after the
\* wrapper was released by the dict, so the read may also end the process
Pop_hit == {"SystemError", "Abort"}

\* pop(key[, default])
LFUCache_pop(key) ==
  /\ Alive
  /\ LET i == PyLFUCache_GetItem(dict, key)
     IN IF i = 0
        THEN /\ \E default \in Defaults : result' = Ret("pop", key, "ok", Miss_value(default))
             /\ UNCHANGED dict
        ELSE /\ dict' = PyLFUCache_DelItem(dict, key).dict
             /\ \E k \in Pop_hit : result' = RetA("pop", key, "-", k, "-", Removed(dict, dict'))
  /\ UNCHANGED <<capacity, hits, misses, now>>

\* setdefault(key[, default])
LFUCache_setdefault(key) ==
  /\ Alive
  /\ LET i == PyLFUCache_GetItem(dict, key)
     IN IF i = 0
        THEN \E default \in Defaults :
               LET _default == IF default = NoArg THEN None ELSE default
               IN /\ \E r \in Outcomes(PyLFUCache_SetItem(dict, capacity, key, _default, now, TRUE)) :
                       /\ dict' = r.dict
                       /\ now' = r.now
                  /\ result' = RetA("setdefault", key, _default, "ok", _default,
                                    Removed(dict, dict'))
        ELSE /\ dict[i].visit_count < VisitCap
             /\ dict' = [dict EXCEPT ![i] = LFUWrapper_UPDATE_WEIGHT(dict[i], now)]
             /\ result' = Ret("setdefault", key, "ok", dict[i].wrapped)
             /\ UNCHANGED now
  /\ UNCHANGED <<capacity, hits, misses>>

\* setnx on a miss whose callback raised: _default is NULL.  Py_INCREF(NULL)
\* is undefined; a build in which it passes goes on to
\* PyLFUCache_SetItem(self, key, NULL), which makes room first and fails in
\* Py_BuildValue, and then to Py_DECREF(NULL), undefined again.
Setnx_raised(d, cap, t) ==
  {[dict |-> d, kind |-> "Abort"]}
    \cup {[dict |-> e, kind |-> k] : e \in SetItem_room(d, cap, t), k \in {"Abort", "CallbackError"}}

\* setnx(key, callback) with a callback that is not callable
Setnx_notcallable ==
  /\ Alive
  /\ result' = Ret("setnx", "-", "TypeError", "-")
  /\ UNCHANGED <<dict, capacity, hits, misses, now>>

\* setnx(key, callback); on a miss the callback is called and returns an
\* object or raises
LFUCache_setnx(key) ==
  /\ Alive
  /\ LET i == PyLFUCache_GetItem(dict, key)
     IN IF i # 0
        THEN /\ dict[i].visit_count < VisitCap
             /\ dict' = [dict EXCEPT ![i] = LFUWrapper_UPDATE_WEIGHT(dict[i], now)]
             /\ result' = Ret("setnx", key, "ok", dict[i].wrapped)
             /\ UNCHANGED now
        ELSE \E produced \in Produced :
               IF produced = Raises
               THEN /\ \E r \in Setnx_raised(dict, capacity, now) :
                         /\ dict' = r.dict
                         /\ result' = RetA("setnx", key, Raises, r.kind, "-",
                                           Removed(dict, dict'))
                    /\ UNCHANGED now
               ELSE /\ \E r \in Outcomes(PyLFUCache_SetItem(dict, capacity, key, produced, now, TRUE)) :
                         /\ dict' = r.dict
                         /\ now' = r.now
                    /\ result' = RetA("setnx", key, produced, "ok", produced,
                                      Removed(dict, dict'))
  /\ UNCHANGED <<capacity, hits, misses>>

\* the keyword pairs the second loop visits: pos is not reset to 0 after
\* the loop over the positional dict
Update_kwargs(arg, kwargs) == SubSeq(kwargs, Len(arg) + 1, Len(kwargs))

\* the pairs update(arg, **kwargs) passes to PyLFUCache_SetItem, in order:
\* the pairs of arg, then the keyword pairs the second loop visits
Update_pairs(arg, kwargs) == arg \o Update_kwargs(arg, kwargs)

\* what the calls of PyLFUCache_SetItem on pairs leave
Update_apply(d, cap, t, pairs) == Outcomes(UpdateRuns({Run(d, t, TRUE)}, cap, pairs, 1))

\* what update(arg, **kwargs) leaves
Update_outcomes(d, cap, t, arg, kwargs) == Update_apply(d, cap, t, Update_pairs(arg, kwargs))

\* the sequences of pairs the calls of update apply, over all their inputs
UpdateApplied == {Update_pairs(p[1], p[2]) : p \in UpdateInputs}

\* update([arg], **kwargs)
LFUCache_update ==
  /\ Alive
  /\ \E r \in UNION {Update_apply(dict, capacity, now, pairs) : pairs \in UpdateApplied} :
       /\ dict' = r.dict
       /\ now' = r.now
  /\ result' = RetA("update", "-", "-", "ok", None, Removed(dict, dict'))
  /\ UNCHANGED <<capacity, hits, misses>>

SetCapacity_evictions_short(d, capacity_, cap) ==
  IF cap < capacity_ /\ PyLFUCache_Size(d) > cap THEN PyLFUCache_Size(d) - cap - 1 ELSE 0

\* the number of evictions set_capacity(cap) makes
SetCapacity_evictions(d, capacity_, cap) ==
  IF cap < capacity_ /\ PyLFUCache_Size(d) > cap THEN PyLFUCache_Size(d) - cap ELSE 0

LFUCache_set_capacity_zero(cap) ==
  /\ Alive
  /\ IF cap < 0
     THEN /\ result' = RetA("set_capacity", "-", cap, "ValueError", "-", 0)
          /\ UNCHANGED <<dict, capacity, now>>
     ELSE /\ \E r \in Outcomes(EvictRuns(dict, SetCapacity_evictions(dict, capacity, cap), now, TRUE)) :
               /\ dict' = r.dict
               /\ now' = r.now
          /\ capacity' = cap
          /\ result' = RetA("set_capacity", "-", cap, "ok", None, Removed(dict, dict'))
  /\ UNCHANGED <<hits, misses>>

\* set_capacity(cap)
LFUCache_set_capacity(cap) ==
  /\ Alive
  /\ IF cap <= 0
     THEN /\ result' = RetA("set_capacity", "-", cap, "ValueError", "-", 0)
          /\ UNCHANGED <<dict, capacity, now>>
     ELSE /\ \E r \in Outcomes(EvictRuns(dict, SetCapacity_evictions(dict, capacity, cap), now, TRUE)) :
               /\ dict' = r.dict
               /\ now' = r.now
          /\ capacity' = cap
          /\ result' = RetA("set_capacity", "-", cap, "ok", None, Removed(dict, dict'))
  /\ UNCHANGED <<hits, misses>>

\* evict()
Evict ==
  /\ Alive
  /\ dict' \in EvictOnce(dict, now)
  /\ result' = RetA("evict", "-", "-", "ok", None, Removed(dict, dict'))
  /\ UNCHANGED <<capacity, hits, misses, now>>

\* lfu(): the key evict would remove
Lfu ==
  /\ Alive
  /\ \E rnd \in RandDraws(dict) :
       LET k == LFUCache_lfu(dict, now, rnd)
       IN result' = IF k = 0 THEN Ret("lfu", "-", "KeyError", "-")
                    ELSE Ret("lfu", dict[k].key, "ok", "-")
  /\ UNCHANGED <<dict, capacity, hits, misses, now>>

PyLFUCache_Clear_keepstats ==
  /\ Alive
  /\ dict' = <<>>
  /\ result' = RetA("clear", "-", "-", "ok", None, Removed(dict, dict'))
  /\ UNCHANGED <<capacity, hits, misses, now>>

\* clear()
PyLFUCache_Clear ==
  /\ Alive
  /\ dict' = <<>>
  /\ misses' = 0
  /\ hits' = 0
  /\ result' = RetA("clear", "-", "-", "ok", None, Removed(dict, dict'))
  /\ UNCHANGED <<capacity, now>>

Next ==
  \/ Tick
  \/ \E key \in Keys, value \in Objects : SetItem(key, value)
  \/ \E key \in Keys : DelItem(key)
  \/ \E key \in Keys : LFUCache_mp_subscript(key)
  \/ LFUCache_hints
  \/ LFUCache_keys
  \/ LFUCache_tp_iter
  \/ \E key \in Keys : Contains(key)
  \/ LFUCache_values
  \/ LFUCache_items
  \/ \E key \in Keys : LFUCache_get(key)
  \/ \E key \in Keys : LFUCache_pop(key)
  \/ \E key \in Keys : LFUCache_setdefault(key)
  \/ Setnx_notcallable
  \/ \E key \in Keys : LFUCache_setnx(key)
  \/ LFUCache_update
  \/ \E cap \in SetCapacities : LFUCache_set_capacity(cap)
  \/ Evict
  \/ Lfu
  \/ PyLFUCache_Clear

Spec == Init /\ [][Next]_vars

\* ---- properties -------------------------------------------------------------
Present(d, key) == key \in KeysOf(d)
EntryOf(d, key) == d[CHOOSE i \in 1..Len(d) : d[i].key = key]
\* every entry of e is an entry of d, unchanged
Kept(d, e) == \A j \in 1..Len(e) : \E i \in 1..Len(d) : d[i] = e[j]

\* C1: after every call that returns successfully the number of entries is
\* at most the capacity
C1_SizeWithinCapacity == result.kind = "ok" => Len(dict) <= capacity

\* a set that had to evict left a cache of two or more entries full
C1_Witness ==
  /\ result.op = "set"
  /\ result.removed = 1
  /\ Len(dict) = capacity
  /\ Len(dict) >= 2

\* C2: in the exact scan, a set on a full cache never evicts an entry of
\* nonzero weight while an entry of weight 0 exists
C2_ZeroWeightEvictedFirst ==
  [][(result'.op = "set" /\ ~Present(dict, result'.key) /\ Len(dict) = capacity
        /\ Len(dict) < LFU_BUCKET_SIZE)
     => \A i \in 1..Len(dict) :
          (/\ ~Present(dict', dict[i].key)
           /\ \E j \in 1..Len(dict) : LFUWrapper_WEIGHT(dict[j], now) = 0)
          => LFUWrapper_WEIGHT(dict[i], now) = 0]_vars

\* C3: pop of a present key removes the entry and returns its value as a
\* normal result; hits and misses are unchanged
C3_PopReturnsValue ==
  [][(result'.op = "pop" /\ Present(dict, result'.key))
     => /\ result'.kind = "ok"
        /\ result'.val = EntryOf(dict, result'.key).wrapped
        /\ ~Present(dict', result'.key)
        /\ Len(dict') = Len(dict) - 1
        /\ hits' = hits
        /\ misses' = misses]_vars

\* C4: indexed get on a hit returns the stored value, adds 1 to hits only and
\* records a visit on that entry only; on a miss it signals KeyError, adds 1
\* to misses only and leaves the entries as they were
C4_IndexedGet ==
  [][result'.op = "getitem"
     => IF Present(dict, result'.key)
        THEN /\ result'.kind = "ok"
             /\ result'.val = EntryOf(dict, result'.key).wrapped
             /\ hits' = hits + 1
             /\ misses' = misses
             /\ Len(dict') = Len(dict)
             /\ \A i \in 1..Len(dict) :
                  dict'[i] = IF dict[i].key = result'.key
                             THEN [dict[i] EXCEPT !.visit_count = dict[i].visit_count + 1,
                                                  !.last_visit = now]
                             ELSE dict[i]
        ELSE /\ result'.kind = "KeyError"
             /\ misses' = misses + 1
             /\ hits' = hits
             /\ dict' = dict]_vars

\* a hit on an entry stamped earlier, in a cache holding another entry
C4_Witness ==
  /\ result.op = "getitem"
  /\ result.kind = "ok"
  /\ hits = 1
  /\ now = LFU_INIT_VAL
  /\ Len(dict) >= 2
  /\ EntryOf(dict, result.key).visit_count = LFU_INIT_VAL + 1
  /\ EntryOf(dict, result.key).last_visit = now

NotCounting ==
  {"keys", "values", "items", "iter", "contains", "get", "pop", "setdefault",
   "setnx", "set", "del", "update", "set_capacity", "evict"}

\* C5: only the indexed get changes hits and misses; every other reader and
\* writer leaves both as they were
C5_StatsOnlyByIndexedGet ==
  [][result'.op \in NotCounting => (hits' = hits /\ misses' = misses)]_vars

\* values() was called on a non-empty cache whose statistics are not zero
C5_Witness ==
  /\ result.op = "values"
  /\ misses = 1
  /\ Len(dict) >= 1

\* C6: set_capacity(k), k >= 1, leaves capacity = k; below the size it
\* removes exactly size - k entries and the rest keep their values, otherwise
\* it removes nothing
C6_SetCapacity ==
  [][(result'.op = "set_capacity" /\ result'.kind = "ok")
     => LET k == result'.arg
        IN /\ capacity' = k
           /\ IF k < Len(dict)
              THEN /\ Len(dict') = k
                   /\ Cardinality(KeysOf(dict) \ KeysOf(dict')) = Len(dict) - k
                   /\ \A j \in 1..Len(dict') :
                        /\ Present(dict, dict'[j].key)
                        /\ dict'[j].wrapped = EntryOf(dict, dict'[j].key).wrapped
              ELSE dict' = dict]_vars

\* a set_capacity that had to evict
C6_Witness ==
  /\ result.op = "set_capacity"
  /\ result.kind = "ok"
  /\ result.removed >= 1
  /\ Len(dict) = capacity

\* C7: set on a present key replaces the value of that entry and nothing
\* else, full cache or not
C7_SetPresentKey ==
  [][(result'.op = "set" /\ Present(dict, result'.key))
     => /\ Len(dict') = Len(dict)
        /\ \A i \in 1..Len(dict) :
             dict'[i] = IF dict[i].key = result'.key
                        THEN [dict[i] EXCEPT !.wrapped = result'.arg]
                        ELSE dict[i]
        /\ capacity' = capacity
        /\ hits' = hits
        /\ misses' = misses]_vars

\* a set on a key that had been visited, in a full cache
C7_Witness ==
  /\ result.op = "set"
  /\ Len(dict) = capacity
  /\ result.removed = 0
  /\ EntryOf(dict, result.key).visit_count = LFU_INIT_VAL + 1
  /\ EntryOf(dict, result.key).wrapped = result.arg

\* C8: set on an absent key in a full cache evicts exactly one key and
\* inserts a fresh entry (visit_count 255, stamped with the clock); the size
\* stays at capacity; an indexed get right after a set returns the value set
C8_SetAbsentKeyFull ==
  [][/\ (result'.op = "set" /\ ~Present(dict, result'.key) /\ Len(dict) = capacity)
        => /\ Len(dict') = capacity
           /\ Cardinality(KeysOf(dict) \ KeysOf(dict')) = 1
           /\ Present(dict', result'.key)
           /\ EntryOf(dict', result'.key) =
                [key |-> result'.key, wrapped |-> result'.arg,
                 last_visit |-> now', visit_count |-> LFU_INIT_VAL]
           /\ \A i \in 1..Len(dict) : Present(dict', dict[i].key) =>
                EntryOf(dict', dict[i].key) = dict[i]
     /\ (result.op = "set" /\ result'.op = "getitem" /\ result'.key = result.key)
        => (result'.kind = "ok" /\ result'.val = result.arg)]_vars

\* a set that evicted one key from a full cache
C8_Witness ==
  /\ result.op = "set"
  /\ result.removed = 1
  /\ Len(dict) = capacity
  /\ EntryOf(dict, result.key).wrapped = result.arg
  /\ EntryOf(dict, result.key).last_visit = LFU_INIT_VAL

\* C9: delete of an absent key signals the error of the indexed get
\* (KeyError) and changes nothing; delete of a present key removes that entry
C9_DeleteSignalsNotFound ==
  [][result'.op = "del"
     => IF Present(dict, result'.key)
        THEN /\ result'.kind = "ok"
             /\ ~Present(dict', result'.key)
             /\ Kept(dict, dict')
             /\ Len(dict') = Len(dict) - 1
        ELSE /\ result'.kind = "KeyError"
             /\ dict' = dict
             /\ capacity' = capacity
             /\ hits' = hits
             /\ misses' = misses]_vars

\* C10: a producer that fails on a miss of setnx is reported to the caller as
\* an error and nothing changes
C10_SetnxProducerFails ==
  [][(result'.op = "setnx" /\ result'.arg = Raises)
     => /\ result'.kind = "CallbackError"
        /\ dict' = dict
        /\ capacity' = capacity
        /\ hits' = hits
        /\ misses' = misses]_vars

\* ---- update, with the arguments of the call on record ----------------------
\* update(arg, **kwargs) as LFUCache_update runs it, result.arg holding the
\* positional dict and the keyword dict in their iteration order
LFUCache_update_args(arg, kwargs) ==
  /\ Alive
  /\ \E r \in Update_outcomes(dict, capacity, now, arg, kwargs) :
       /\ dict' = r.dict
       /\ now' = r.now
  /\ result' = RetA("update", "-", <<arg, kwargs>>, "ok", None, Removed(dict, dict'))
  /\ UNCHANGED <<capacity, hits, misses>>

NextUpdate ==
  \/ Tick
  \/ \E key \in Keys, value \in Objects : SetItem(key, value)
  \/ \E key \in Keys : DelItem(key)
  \/ \E p \in UpdateInputs : LFUCache_update_args(p[1], p[2])

SpecUpdate == Init /\ [][NextUpdate]_vars

\* the keys supplied to one call of update, and the last value supplied for
\* a key (the keyword pairs come after the pairs of the positional dict)
Supplied(pairs) == {pairs[i][1] : i \in 1..Len(pairs)}
LastSupplied(pairs, key) ==
  pairs[CHOOSE i \in 1..Len(pairs) :
          /\ pairs[i][1] = key
          /\ \A j \in (i + 1)..Len(pairs) : pairs[j][1] # key][2]

\* C11: when the capacity leaves room for every supplied key, after update
\* returns every supplied key, positional or keyword, is present and maps to
\* the last value supplied for it
C11_UpdateAppliesEveryPair ==
  [][(result'.op = "update" /\ result'.kind = "ok")
     => LET pairs == result'.arg[1] \o result'.arg[2]
        IN Cardinality(KeysOf(dict) \cup Supplied(pairs)) <= capacity
           => \A key \in Supplied(pairs) :
                /\ Present(dict', key)
                /\ EntryOf(dict', key).wrapped = LastSupplied(pairs, key)]_vars

\* ---- visits ---------------------------------------------------------------------
Visiting == {"values", "items"}
NotVisiting == {"keys", "iter", "contains", "get"}

\* C12: values() and items() record a visit on every entry: its visit_count
\* grows by 1 and its last_visit becomes the clock reading of the visit, key
\* and value staying as they were; keys(), iteration, contains and get with
\* a default leave every entry as it was
C12_VisitsByValuesAndItems ==
  [][/\ result'.op \in Visiting
          => /\ Len(dict') = Len(dict)
             /\ \A i \in 1..Len(dict) :
                  /\ dict'[i].key = dict[i].key
                  /\ dict'[i].wrapped = dict[i].wrapped
                  /\ dict'[i].visit_count = dict[i].visit_count + 1
                  /\ dict'[i].last_visit >= now
                  /\ dict'[i].last_visit <= now'
                  /\ now' = now => dict'[i].last_visit = now
     /\ result'.op \in NotVisiting => dict' = dict]_vars

\* values() or items() ran on two entries after the clock had advanced
C12_Witness ==
  /\ result.op \in Visiting
  /\ Len(dict) = 2
  /\ now = LFU_INIT_VAL
  /\ \A i \in 1..Len(dict) :
       /\ dict[i].visit_count = LFU_INIT_VAL + 1
       /\ dict[i].last_visit = now

\* ---- one wrapper, over the whole range of its counter ------------------------
\* visit counts at the ends of the unsigned range and around LFU_INIT_VAL
WrapperCounts ==
  {0, 1, LFU_INIT_VAL - 1, LFU_INIT_VAL, LFU_INIT_VAL + 1, INT_MAX, INT_MIN,
   UINT_MAX - 1, UINT_MAX}
\* minutes at which the wrapper is stamped, visited and weighed
WrapperTimes == {0, 1, LFU_INIT_VAL, LFU_INIT_VAL + 1, LFU_INIT_VAL + 2}

\* a cache holding one wrapper that was last visited at or before now
InitWrapper ==
  /\ capacity = 1
  /\ hits = 0
  /\ misses = 0
  /\ now \in WrapperTimes
  /\ \E c \in WrapperCounts, t \in WrapperTimes :
       /\ t <= now
       /\ dict = <<[key |-> "a", wrapped |-> "v1", last_visit |-> t, visit_count |-> c]>>
  /\ result = Ret("init", "-", "ok", "-")

WrapperTick ==
  /\ now' \in {u \in WrapperTimes : u > now}
  /\ result' = Ret("tick", "-", "ok", "-")
  /\ UNCHANGED <<dict, capacity, hits, misses>>

\* LFUWrapper_wrapped(wrapper): records a visit and returns the value
LFUWrapper_wrapped ==
  /\ dict[1].visit_count \in WrapperCounts
  /\ dict' = <<LFUWrapper_UPDATE_WEIGHT(dict[1], now)>>
  /\ result' = Ret("wrapped", dict[1].key, "ok", dict[1].wrapped)
  /\ UNCHANGED <<capacity, hits, misses, now>>

\* LFUWrapper_WEIGHT(wrapper, now), as lfu calls it
Wrapper_weight ==
  /\ result' = Ret("weight", dict[1].key, "ok", LFUWrapper_WEIGHT(dict[1], now))
  /\ UNCHANGED <<dict, capacity, hits, misses, now>>

NextWrapper ==
  \/ WrapperTick
  \/ LFUWrapper_wrapped
  \/ Wrapper_weight

SpecWrapper == InitWrapper /\ [][NextWrapper]_vars

\* C13: a visit strictly increases visit_count, or leaves it at the largest
\* value of the counter when it is already there, and stamps last_visit with
\* the time of the visit; the weight at that time is the new visit_count
C13_VisitIncreasesOrSaturates ==
  [][result'.op = "wrapped"
     => /\ \/ U32_gt(dict'[1].visit_count, dict[1].visit_count)
           \/ (dict[1].visit_count = UINT_MAX /\ dict'[1].visit_count = UINT_MAX)
        /\ dict'[1].last_visit = now
        /\ LFUWrapper_WEIGHT(dict'[1], now) = dict'[1].visit_count]_vars

\* a <= b as unsigned ints
U32_le(a, b) == ~U32_gt(a, b)

\* the weight the wrapper w has at minute t: its count less the minutes
\* since its last visit, 0 once those exceed the count
DecayedWeight(w, t) ==
  LET elapsed == U32_sub(t, w.last_visit)
  IN IF U32_le(elapsed, w.visit_count) THEN U32_sub(w.visit_count, elapsed) ELSE 0

\* C14: the weight of an entry that is not visited never grows with time and
\* stops at 0: it is visit_count - (t - last_visit) while that is not
\* negative and 0 afterwards, and weighing changes neither the entry nor
\* anything else
C14_WeightDecays ==
  [][result'.op = "weight"
     => /\ result'.val = DecayedWeight(dict[1], now)
        /\ \A t1, t2 \in WrapperTimes :
             (dict[1].last_visit <= t1 /\ t1 < t2)
             => /\ LFUWrapper_WEIGHT(dict[1], t1) = DecayedWeight(dict[1], t1)
                /\ U32_le(LFUWrapper_WEIGHT(dict[1], t2), LFUWrapper_WEIGHT(dict[1], t1))
        /\ dict' = dict
        /\ capacity' = capacity
        /\ hits' = hits
        /\ misses' = misses
        /\ now' = now]_vars

\* a wrapper with a count of 255 was weighed 256 minutes after its last
\* visit: the weight is floored at 0
C14_Witness ==
  /\ result.op = "weight"
  /\ result.val = 0
  /\ dict[1].visit_count = LFU_INIT_VAL
  /\ dict[1].last_visit = 0
  /\ now = LFU_INIT_VAL + 1

\* ---- capacity ------------------------------------------------------------------
\* C15: construction with a capacity that is not positive signals ValueError;
\* set_capacity with a value that is not positive signals ValueError and
\* leaves capacity, entries, hits and misses as they were; the capacity of a
\* constructed cache is always at least 1
C15_CapacityIsPositive ==
  /\ [](/\ result.op = "init" => (result.kind = "ValueError" <=> capacity <= 0)
        /\ ~(result.op = "init" /\ result.kind # "ok") => capacity >= 1)
  /\ [][(result'.op = "set_capacity" /\ result'.arg <= 0)
        => /\ result'.kind = "ValueError"
           /\ capacity' = capacity
           /\ dict' = dict
           /\ hits' = hits
           /\ misses' = misses]_vars

\* set_capacity(0) was refused on a cache that holds entries
C15_Witness ==
  /\ result.op = "set_capacity"
  /\ result.arg = 0
  /\ result.kind = "ValueError"
  /\ Len(dict) >= 1
  /\ capacity >= 1

\* ---- clear -----------------------------------------------------------------------
\* C16: clear() leaves no entry, hits = 0 and misses = 0, and the capacity as
\* it was; hints() right after it returns (capacity, 0, 0)
C16_ClearResets ==
  [][/\ result'.op = "clear"
          => /\ Len(dict') = 0
             /\ hits' = 0
             /\ misses' = 0
             /\ capacity' = capacity
     /\ (result.op = "clear" /\ result'.op = "hints")
          => result'.val = <<capacity, 0, 0>>]_vars

\* clear() emptied a cache that held two entries
C16_Witness ==
  /\ result.op = "clear"
  /\ result.removed = 2
  /\ Len(dict) = 0
  /\ hits = 0
  /\ misses = 0

\* ---- victim selection, exact scan --------------------------------------------
\* the first entry, in dict order, whose weight at t is the least of all
FirstLightest(d, t) ==
  CHOOSE i \in 1..Len(d) :
    /\ \A j \in 1..Len(d) : LFUWrapper_WEIGHT(d[i], t) <= LFUWrapper_WEIGHT(d[j], t)
    /\ \A j \in 1..(i - 1) : LFUWrapper_WEIGHT(d[j], t) > LFUWrapper_WEIGHT(d[i], t)

\* C17: with fewer than 256 entries lfu() returns the key of the entry of
\* least weight, the first such entry in dict order when several share the
\* least weight, weight 0 included
C17_ExactScanFirstMinimum ==
  [][(result'.op = "lfu" /\ 0 < Len(dict) /\ Len(dict) < LFU_BUCKET_SIZE)
     => /\ result'.kind = "ok"
        /\ result'.key = dict[FirstLightest(dict, now)].key]_vars

\* ---- victim selection, sampling ----------------------------------------------
\* One call of lfu() on a dict of LFU_BUCKET_SIZE entries or more, one turn
\* of its loop at a time.  While the call runs, result holds its locals: the
\* loop counter i, the index pos and the key fetched last, min and rv; keys
\* are named by their place in the dict, from 1, and 0 is NULL.
Locals(i, pos, key, min, rv, kind) ==
  [op |-> "lfu", i |-> i, pos |-> pos, key |-> key, min |-> min, rv |-> rv, kind |-> kind]

\* sizes with and without a remainder after the LFU_BUCKET buckets
SampleSizes == {LFU_BUCKET_SIZE, LFU_BUCKET_SIZE + 7}

\* the entries never read since they were set at minute 0: none, the first
\* key of bucket 1, or the key that stands for the remainder; every other
\* entry was set at minute 0 and read at minute 1
SampleColds(n) ==
  IF n % LFU_BUCKET = 0 THEN {{}}
  ELSE {{n \div LFU_BUCKET + 1},
        {LFU_BUCKET * (n \div LFU_BUCKET) + (n % LFU_BUCKET) \div 2 + 1}}

SampleDict(n, cold) ==
  [k \in 1..n |->
     IF k \in cold
     THEN [key |-> k, wrapped |-> "v1", last_visit |-> 0, visit_count |-> LFU_INIT_VAL]
     ELSE [key |-> k, wrapped |-> "v1", last_visit |-> 1, visit_count |-> LFU_INIT_VAL + 1]]

\* lfu() has read the clock, found dict_len >= LFU_BUCKET_SIZE and built
\* the key list
InitSample ==
  /\ \E n \in SampleSizes : \E cold \in SampleColds(n) :
       /\ dict = SampleDict(n, cold)
       /\ capacity = n
       /\ hits = n - Cardinality(cold)
  /\ misses = 0
  /\ now = 1
  /\ result = Locals(0, 0, 0, 0, 0, "running")

\* one turn of the for loop: bucket i is sampled
Lfu_bucket ==
  /\ result.kind = "running"
  /\ result.i < LFU_BUCKET - 1
  /\ \E r \in rand_limit(Len(dict) \div LFU_BUCKET) :
       LET s == LFU_bucket(dict, result.i, result.min, result.rv, now, r)
       IN result' = Locals(result.i + 1, s.pos, s.key, s.min, s.rv, "running")
  /\ UNCHANGED <<dict, capacity, hits, misses, now>>

\* the loop is over: the remainder branch, then the return of rv
Lfu_remainder ==
  /\ result.kind = "running"
  /\ result.i = LFU_BUCKET - 1
  /\ result' = Locals(result.i, result.pos, result.key, result.min,
                      LFU_remainder(dict, result.min, result.rv, result.key, now), "ok")
  /\ UNCHANGED <<dict, capacity, hits, misses, now>>

NextSample ==
  \/ Lfu_bucket
  \/ Lfu_remainder

SpecSample == InitSample /\ [][NextSample]_vars

\* the remainder's key weighs less than every other entry
RemainderLightest(d, t) ==
  /\ Len(d) % LFU_BUCKET # 0
  /\ \A k \in 1..Len(d) :
       k # LFU_remainder_pos(d) + 1
       => LFUWrapper_WEIGHT(d[LFU_remainder_pos(d) + 1], t) < LFUWrapper_WEIGHT(d[k], t)

\* C18: with LFU_BUCKET_SIZE entries or more the key returned is the
\* lightest of the keys sampled; so when the key that stands for the
\* remainder is lighter than every other key, that key is returned
C18_RemainderIsVictim ==
  [][(result.kind = "running" /\ result'.kind = "ok" /\ RemainderLightest(dict, now))
     => result'.rv = LFU_remainder_pos(dict) + 1]_vars

\* C19: the index sampled for bucket i, 0 <= i <= 6, lies in bucket i:
\* i * b <= pos <= (i + 1) * b - 1 with b = n div 8, whatever the draw
C19_SampleWithinBucket ==
  [][result'.kind = "running"
     => /\ result'.pos >= result.i * (Len(dict) \div LFU_BUCKET)
        /\ result'.pos <= (result.i + 1) * (Len(dict) \div LFU_BUCKET) - 1]_vars

\* ---- the clock within one call -------------------------------------------------
\* C20: a call reads the minute clock once and uses that reading for every
\* entry it touches, even when the clock advances while the call runs: after
\* values() or items() every entry has the same last_visit, the minute at
\* which the call began
C20_OneClockReadingPerCall ==
  [][result'.op \in Visiting
     => \A i \in 1..Len(dict') : dict'[i].last_visit = now]_vars

\* ---- evict(), in both regimes of lfu() ---------------------------------------------
\* One call of evict(): lfu() up to its return, then the rest of evict.
\* result.kind is "called" when lfu() has read the clock and the size,
\* "running" in the loop over the buckets, "ok" or "KeyError" when lfu() has
\* returned.
ScanSizes == 0..3
ScanTimes == {1, LFU_INIT_VAL + 1}

\* dicts small enough for the exact scan, with every choice of the entries
\* never read since they were set; at minute 256 these weigh 0
InitScan ==
  /\ \E n \in ScanSizes : \E cold \in SUBSET (1..n) :
       /\ dict = SampleDict(n, cold)
       /\ hits = n - Cardinality(cold)
  /\ capacity = 3
  /\ misses = 0
  /\ now \in ScanTimes
  /\ result = Locals(0, 0, 0, 0, 0, "called")

InitVictim == InitScan \/ InitSample

\* lfu() on fewer than LFU_BUCKET_SIZE entries: KeyError on an empty dict,
\* the exact scan otherwise
Lfu_exact ==
  /\ result.kind = "called"
  /\ Len(dict) < LFU_BUCKET_SIZE
  /\ LET rv == LFUCache_lfu(dict, now, <<>>)
     IN result' = Locals(0, 0, rv, 0, rv, IF rv = 0 THEN "KeyError" ELSE "ok")
  /\ UNCHANGED <<dict, capacity, hits, misses, now>>

Evict_delete_keep ==
  /\ result.op = "lfu"
  /\ result.kind \in {"ok", "KeyError"}
  /\ result' = RetA("evict", result.rv, "-", "ok", None, 0)
  /\ UNCHANGED <<dict, capacity, hits, misses, now>>

\* evict() once lfu() has returned: the error of an empty dict is cleared,
\* the key returned is deleted from the dict
Evict_delete ==
  /\ result.op = "lfu"
  /\ result.kind \in {"ok", "KeyError"}
  /\ dict' = IF result.kind = "KeyError" THEN dict ELSE PyDict_DelItem(dict, result.rv)
  /\ result' = RetA("evict", result.rv, "-", "ok", None, Len(dict) - Len(dict'))
  /\ UNCHANGED <<capacity, hits, misses, now>>

NextVictim ==
  \/ Lfu_exact
  \/ Lfu_bucket
  \/ Lfu_remainder
  \/ Evict_delete

SpecVictim == InitVictim /\ [][NextVictim]_vars

\* lfu() returns in this step
LfuReturns == result.op = "lfu" /\ result.kind \in {"called", "running"} /\ result'.kind \notin {"called", "running"}

\* C21: on a dict that is not empty lfu() returns a key of the dict, by the
\* exact scan and by sampling alike, and every index it reads is an index of
\* the key list; evict() then removes that one entry and changes nothing
\* else; on an empty dict evict() changes nothing and reports no error
C21_VictimIsPresent ==
  [][/\ (LfuReturns /\ Len(dict) > 0)
          => /\ result'.kind = "ok"
             /\ result'.rv \in 1..Len(dict)
     /\ (LfuReturns /\ Len(dict) >= LFU_BUCKET_SIZE /\ Len(dict) % LFU_BUCKET # 0)
          => LFU_remainder_pos(dict) \in 0..(Len(dict) - 1)
     /\ (result.op = "lfu" /\ result'.kind = "running")
          => result'.pos \in 0..(Len(dict) - 1)
     /\ result'.op = "lfu" => dict' = dict
     /\ result'.op = "evict"
          => /\ result'.kind = "ok"
             /\ IF Len(dict) = 0 THEN dict' = dict
                ELSE /\ Len(dict') = Len(dict) - 1
                     /\ Kept(dict, dict')
                     /\ \A k \in 1..Len(dict') : dict'[k].key # dict[result.rv].key
     /\ capacity' = capacity
     /\ hits' = hits
     /\ misses' = misses]_vars

\* evict() removed the key lfu() had sampled from a dict of 263 entries
C21_Witness ==
  /\ result.op = "evict"
  /\ result.removed = 1
  /\ Len(dict) = LFU_BUCKET_SIZE + 6

\* ---- hits and misses ---------------------------------------------------------------
\* C22: hits + misses is the number of indexed gets made since construction
\* or since the last clear(), hits counting those that found their key and
\* misses the others: both are 0 after construction and after clear(), every
\* indexed get adds exactly 1 to the one of the two that stands for its
\* outcome, and no other call changes either, so neither ever decreases
\* except by clear()
C22_StatsCountIndexedGets ==
  /\ (result.kind = "ok" => (hits = 0 /\ misses = 0))
  /\ [][IF result'.op = "getitem"
        THEN IF Present(dict, result'.key)
             THEN hits' = hits + 1 /\ misses' = misses
             ELSE misses' = misses + 1 /\ hits' = hits
        ELSE IF result'.op = "clear"
             THEN hits' = 0 /\ misses' = 0
             ELSE hits' = hits /\ misses' = misses]_vars

\* an indexed get missed its key in a cache that holds other keys
C22_Witness ==
  /\ result.op = "getitem"
  /\ result.kind = "KeyError"
  /\ misses = 1
  /\ hits = 0
  /\ Len(dict) >= 1

====
